---- MODULE Spec2Model ----
(***************************************************************************)
(* A model of utilities/mei_cleaning.py: the MEIFileCleaner that removes   *)
(* unreferenced zones and identical duplicate zones from an MEI document.  *)
(*                                                                         *)
(* Strings are sequences of one-character strings, except the fixed pieces *)
(* of markup the serializer writes (tag openers, attribute names, quotes), *)
(* which are single tokens: the identifiers of the documents modelled here *)
(* ("z1", "e2", ...) never occur inside those pieces.                      *)
(* An optional value (a missing attribute, a None text) is <<>> when       *)
(* absent and <<v>> when present.                                          *)
(***************************************************************************)
EXTENDS Integers, Sequences, FiniteSets, TLC

\* The largest number of zone definitions in a document.
MaxZones == 3
\* The largest number of direct calls of remove_unreferenced_zones on one tree.
MaxRuns == 2

VARIABLES
    zones,          \* the zone children of facsimile/surface, in document order
    children,       \* node -> the sequence of its child nodes (Element._children)
    attrib,         \* node -> its attributes xml:id, facs, tilt (Element.attrib)
    text,           \* node -> its text (Element.text)
    remove_unreferenced_bounding_boxes,
    remove_identical_duplicates,
    raise_nonidentical_duplicates,
    report_file,    \* TRUE when a report file path was given
    pc,             \* where the caller or the running method stands
    err,            \* the exception that ended the run, "none" otherwise
    dup_ref_list,   \* handle_referenced_duplicates' local list
    idx,            \* the position of its loop in dup_ref_list
    out,            \* what was printed, in order
    runs,           \* direct calls of remove_unreferenced_zones made so far
    dupe_zone_list  \* the value a direct call of find_duplicate_zones returned

vars == <<zones, children, attrib, text, remove_unreferenced_bounding_boxes,
          remove_identical_duplicates, raise_nonidentical_duplicates, report_file,
          pc, err, dup_ref_list, idx, out, runs, dupe_zone_list>>

doc == <<zones, children, attrib, text>>
flags == <<remove_unreferenced_bounding_boxes, remove_identical_duplicates,
           raise_nonidentical_duplicates, report_file>>

(***************************************************************************)
(* Strings, optional values, numbers                                       *)
(***************************************************************************)
Some(v) == <<v>>
Absent == <<>>

DigitChars == <<"0", "1", "2", "3", "4", "5", "6", "7", "8", "9">>

DigitVal(c) == CHOOSE d \in 0..9 : DigitChars[d + 1] = c

RECURSIVE ParseNat(_)
ParseNat(s) == IF s = <<>> THEN 0
               ELSE 10 * ParseNat(SubSeq(s, 1, Len(s) - 1)) + DigitVal(s[Len(s)])

\* int(s) for a decimal literal with an optional sign.
ParseInt(s) == IF s[1] = "-" THEN 0 - ParseNat(Tail(s)) ELSE ParseNat(s)

\* float(s) for a literal [-]d+[.d], as a number of tenths (-0.0 == 0.0).
ParseFloat(s) ==
    LET neg == s[1] = "-"
        b   == IF neg THEN Tail(s) ELSE s
        v   == IF Len(b) >= 2 /\ b[Len(b) - 1] = "."
               THEN 10 * ParseNat(SubSeq(b, 1, Len(b) - 2)) + DigitVal(b[Len(b)])
               ELSE 10 * ParseNat(b)
    IN IF neg THEN 0 - v ELSE v

\* sub in s (str.__contains__).
IsSubstring(sub, s) ==
    \E k \in 0..(Len(s) - Len(sub)) : SubSeq(s, k + 1, k + Len(sub)) = sub

RECURSIVE Flatten(_)
Flatten(ss) == IF ss = <<>> THEN <<>> ELSE Head(ss) \o Flatten(Tail(ss))

\* list.remove(x) on a list that holds x: the first occurrence goes.
ListRemove(s, x) ==
    LET k == CHOOSE i \in 1..Len(s) : s[i] = x /\ \A j \in 1..(i - 1) : s[j] # x
    IN SubSeq(s, 1, k - 1) \o SubSeq(s, k + 1, Len(s))

InSeq(s, x) == \E i \in 1..Len(s) : s[i] = x

(***************************************************************************)
(* The document tree                                                       *)
(***************************************************************************)
\* body (with the mdiv/score/section/staff chain down to the layers), the layer
\* the fixed path of get_elements_with_duplicate_references selects, a further
\* layer of the same body, and the elements below them.
Body == <<"body", 0>>
Layer == <<"layer", 1>>
Layer2 == <<"layer", 2>>
Elem(i) == <<"elem", i>>
None == <<"None", 0>>

ZoneId(i) == <<"z", DigitChars[i + 1]>>
ElemId(i) == <<"e", DigitChars[i + 1]>>
\* The value of a facs attribute that refers to a zone.
Ref(id) == <<"#">> \o id

NoAttrib == [xmlid |-> Absent, facs |-> Absent, tilt |-> Absent]

TagOf(node) == IF node[1] = "elem" THEN "nc" ELSE node[1]

AttrString(name, v) == IF v = Absent THEN <<>> ELSE <<name, "=", "\"">> \o v[1] \o <<"\"">>

\* ET.tostring(node, encoding = 'unicode'): the element, its attributes, its text
\* and its children; an element with neither text nor children is self-closing.
RECURSIVE tostring(_, _, _, _)
tostring(node, ch, at, tx) ==
    LET open == <<"<", TagOf(node)>>
                  \o AttrString(" xml:id", at[node].xmlid)
                  \o AttrString(" facs", at[node].facs)
                  \o AttrString(" tilt", at[node].tilt)
        kids == Flatten([k \in 1..Len(ch[node]) |-> tostring(ch[node][k], ch, at, tx)])
    IN IF tx[node] = Absent /\ ch[node] = <<>>
       THEN open \o <<" />">>
       ELSE open \o <<">">> \o (IF tx[node] = Absent THEN <<>> ELSE tx[node][1])
                 \o kids \o <<"</", TagOf(node), ">">>

\* Element.iter(): the node and its descendants in document order.
RECURSIVE Iter(_, _)
Iter(node, ch) ==
    <<node>> \o Flatten([k \in 1..Len(ch[node]) |-> Iter(ch[node][k], ch)])

(***************************************************************************)
(* parse_zones, find_duplicate_zones                                       *)
(***************************************************************************)
\* zone.get(c, -1) through int(): the default when the attribute is missing.
IntAttr(v, default) == IF v = Absent THEN default ELSE ParseInt(v[1])

\* zone.get("rotate", 0.0) through float(), in tenths.
FloatAttr(v, default) == IF v = Absent THEN default ELSE ParseFloat(v[1])

\* The value parse_zones stores for one zone element.
ZoneDescriptor(zone) ==
    [coordinates |-> <<IntAttr(zone.ulx, -1), IntAttr(zone.uly, -1),
                       IntAttr(zone.lrx, -1), IntAttr(zone.lry, -1)>>,
     rotate |-> FloatAttr(zone.rotate, 0)]

\* d[key] = value on a dict kept in insertion order: a key already there keeps
\* its place and takes the new value.
DictPut(d, key, value) ==
    IF \E i \in 1..Len(d) : d[i].key = key
    THEN [i \in 1..Len(d) |-> IF d[i].key = key THEN [key |-> key, value |-> value]
                                                 ELSE d[i]]
    ELSE Append(d, [key |-> key, value |-> value])

RECURSIVE parse_zones(_)
parse_zones(zs) ==
    IF zs = <<>> THEN <<>>
    ELSE LET zone == zs[Len(zs)]
         IN DictPut(parse_zones(SubSeq(zs, 1, Len(zs) - 1)),
                    Ref(zone.id), ZoneDescriptor(zone))

\* Variant: only neighbouring keys are paired.
Combinations2_Adjacent(n) == [i \in 1..(n - 1) |-> <<i, i + 1>>]

\* itertools.combinations(range(1, n + 1), 2), in the order it yields them.
Combinations2(n) ==
    Flatten([i \in 1..n |-> [k \in 1..(n - i) |-> <<i, i + k>>]])

find_duplicate_zones(zs) ==
    LET table == parse_zones(zs)
        Equal(c) == table[c[1]].value = table[c[2]].value
        hits == SelectSeq(Combinations2(Len(table)), Equal)
    IN [k \in 1..Len(hits) |-> <<table[hits[k][1]].key, table[hits[k][2]].key>>]

(***************************************************************************)
(* remove_unreferenced_zones                                               *)
(***************************************************************************)
\* The loop over the list findall returned, from its position k on: a zone whose
\* id is not in body_str is removed from the surface and reported.
\* The result is the surface's zones and the lines printed.
\* Variant: the loop runs over the surface's own child list while removing from it.
RECURSIVE RemoveLoop_Live(_, _, _, _)
RemoveLoop_Live(defined_zones, k, surface, body_str) ==
    IF k > Len(surface) THEN [surface |-> surface, printed |-> <<>>]
    ELSE LET def_z == surface[k]
         IN IF ~IsSubstring(def_z.id, body_str)
            THEN LET rest == RemoveLoop_Live(defined_zones, k + 1,
                                             ListRemove(surface, def_z), body_str)
                 IN [surface |-> rest.surface,
                     printed |-> <<[kind |-> "unreferenced", a |-> def_z.id, b |-> <<>>]>>
                                 \o rest.printed]
            ELSE RemoveLoop_Live(defined_zones, k + 1, surface, body_str)

\* Variant: the return sits inside the loop, after the first removal.
RECURSIVE RemoveLoop_Return(_, _, _, _)
RemoveLoop_Return(defined_zones, k, surface, body_str) ==
    IF k > Len(defined_zones) THEN [surface |-> surface, printed |-> <<>>]
    ELSE LET def_z == defined_zones[k]
         IN IF ~IsSubstring(def_z.id, body_str)
            THEN [surface |-> ListRemove(surface, def_z),
                  printed |-> <<[kind |-> "unreferenced", a |-> def_z.id, b |-> <<>>]>>]
            ELSE RemoveLoop_Return(defined_zones, k + 1, surface, body_str)

RECURSIVE RemoveLoop(_, _, _, _)
RemoveLoop(defined_zones, k, surface, body_str) ==
    IF k > Len(defined_zones) THEN [surface |-> surface, printed |-> <<>>]
    ELSE LET def_z == defined_zones[k]
         IN IF ~IsSubstring(def_z.id, body_str)
            THEN LET rest == RemoveLoop(defined_zones, k + 1,
                                        ListRemove(surface, def_z), body_str)
                 IN [surface |-> rest.surface,
                     printed |-> <<[kind |-> "unreferenced", a |-> def_z.id, b |-> <<>>]>>
                                 \o rest.printed]
            ELSE RemoveLoop(defined_zones, k + 1, surface, body_str)

remove_unreferenced_zones(zs, ch, at, tx) ==
    RemoveLoop(zs, 1, zs, tostring(Body, ch, at, tx))

(***************************************************************************)
(* get_elements_with_duplicate_references                                  *)
(***************************************************************************)
\* mei.find of the fixed path: the first layer of the body.
FindLayer(ch) == IF ch[Body] = <<>> THEN None ELSE ch[Body][1]

\* The descendants of root with facs = value, in document order
\* (the path .//*[@facs='value']; root itself is not among them).
Matches(root, value, ch, at) ==
    LET HasFacs(n) == at[n].facs = Some(value)
    IN SelectSeq(Tail(Iter(root, ch)), HasFacs)

\* Variant: the last match is taken.
FindElement_Last(root, value, ch, at) ==
    LET m == Matches(root, value, ch, at)
    IN IF m = <<>> THEN None ELSE m[Len(m)]

\* root.find(".//*[@facs='value']"): the first match, None without one.
FindElement(root, value, ch, at) ==
    LET m == Matches(root, value, ch, at)
    IN IF m = <<>> THEN None ELSE m[1]

\* The parent map ElementPath builds from root.iter(): a later parent in
\* document order overwrites an earlier one.
ParentOf(root, node, ch) ==
    LET it == Iter(root, ch)
        ps == {i \in 1..Len(it) : InSeq(ch[it[i]], node)}
    IN it[CHOOSE i \in ps : \A j \in ps : j <= i]

\* root.find(".//*[@facs='value']/.."): the parent of the first match.
FindParent(root, value, ch, at) ==
    LET m == Matches(root, value, ch, at)
    IN IF m = <<>> THEN None ELSE ParentOf(root, m[1], ch)

get_elements_with_duplicate_references(zs, ch, at) ==
    LET duplicate_zones == find_duplicate_zones(zs)
        layer == FindLayer(ch)
        Entry(dup) == [element |-> FindElement(layer, dup, ch, at),
                       bb_id |-> dup,
                       parent |-> FindParent(layer, dup, ch, at)]
    IN [k \in 1..Len(duplicate_zones) |->
           <<Entry(duplicate_zones[k][1]), Entry(duplicate_zones[k][2])>>]

(***************************************************************************)
(* check_element_identity, delete_element_and_referenced_zone,             *)
(* register_nonidentical_duplicates                                        *)
(***************************************************************************)
\* The attributes left once xml:id and facs are popped.
OtherAttribs(a) == [tilt |-> a.tilt]

\* exc is the exception raised ("none": the call returned value).
check_element_identity(elem1, elem2, at, tx) ==
    IF elem1 = None \/ elem2 = None
    THEN [exc |-> "AttributeError", value |-> FALSE]
    ELSE IF \E e \in {elem1, elem2} : at[e].xmlid = Absent \/ at[e].facs = Absent
    THEN [exc |-> "KeyError", value |-> FALSE]
    ELSE [exc |-> "none",
          value |-> OtherAttribs(at[elem1]) = OtherAttribs(at[elem2])
                    /\ tx[elem1] = tx[elem2]]

\* zone_id.replace('#', '')
StripHash(zone_id) == LET NotHash(c) == c # "#" IN SelectSeq(zone_id, NotHash)

\* surface.find("*[@xml:id='id']"): the first child with that id, as <<zone>>,
\* <<>> without one.
FindZone(surface, id) ==
    LET HasId(z) == z.id = id
        m == SelectSeq(surface, HasId)
    IN IF m = <<>> THEN <<>> ELSE <<m[1]>>

\* Variant: an element that is no longer a child of its parent is skipped.
delete_element_and_referenced_zone_Guarded(surface, element, parent, zone_id, ch, at) ==
    IF parent = None \/ ~InSeq(ch[parent], element)
    THEN [exc |-> "none", children |-> ch, zones |-> surface, printed |-> <<>>]
    ELSE LET ch1 == [ch EXCEPT ![parent] = ListRemove(ch[parent], element)]
             zone_to_del == FindZone(surface, StripHash(zone_id))
         IN [exc |-> "none", children |-> ch1,
             zones |-> IF zone_to_del = <<>> THEN surface
                       ELSE ListRemove(surface, zone_to_del[1]),
             printed |-> <<[kind |-> "removed", a |-> zone_id,
                            b |-> at[element].xmlid[1]]>>]

\* The tree and the surface as the call leaves them, the exception it raised
\* ("none": it returned) and what it printed.
delete_element_and_referenced_zone(surface, element, parent, zone_id, ch, at) ==
    IF at[element].xmlid = Absent
    THEN [exc |-> "KeyError", children |-> ch, zones |-> surface, printed |-> <<>>]
    ELSE IF parent = None
    THEN [exc |-> "AttributeError", children |-> ch, zones |-> surface, printed |-> <<>>]
    ELSE IF ~InSeq(ch[parent], element)
    THEN [exc |-> "ValueError", children |-> ch, zones |-> surface, printed |-> <<>>]
    ELSE LET ch1 == [ch EXCEPT ![parent] = ListRemove(ch[parent], element)]
             zone_to_del == FindZone(surface, StripHash(zone_id))
         IN IF zone_to_del = <<>>
            THEN [exc |-> "TypeError", children |-> ch1, zones |-> surface,
                  printed |-> <<>>]
            ELSE [exc |-> "none", children |-> ch1,
                  zones |-> ListRemove(surface, zone_to_del[1]),
                  printed |-> <<[kind |-> "removed", a |-> zone_id,
                                 b |-> at[element].xmlid[1]]>>]

\* open(self.report_file, 'wa') is no mode of open: with a report file the call
\* raises ValueError; without one the record is printed.
register_nonidentical_duplicates(dup_dict_1, dup_dict_2, rf) ==
    IF rf
    THEN [exc |-> "ValueError", printed |-> <<>>]
    ELSE [exc |-> "none",
          printed |-> <<[kind |-> "conflict", a |-> dup_dict_1.bb_id,
                         b |-> dup_dict_2.bb_id]>>]

\* Variant: the first member of the pair is handed to the deletion.
DupToDelete_First(dup_ref) == dup_ref[1]

\* The member of a pair handle_referenced_duplicates hands to the deletion.
DupToDelete(dup_ref) == dup_ref[2]

\* One pass of the loop of handle_referenced_duplicates over dup_ref.
HandleOne(dup_ref, zs, ch, at, tx) ==
    LET identical == check_element_identity(dup_ref[1].element, dup_ref[2].element,
                                            at, tx)
        same == [exc |-> "none", children |-> ch, zones |-> zs, printed |-> <<>>]
    IN IF identical.exc # "none" THEN [same EXCEPT !.exc = identical.exc]
       ELSE IF identical.value
       THEN IF remove_identical_duplicates
            THEN LET d == DupToDelete(dup_ref)
                 IN delete_element_and_referenced_zone(zs, d.element, d.parent,
                                                       d.bb_id, ch, at)
            ELSE same
       ELSE IF raise_nonidentical_duplicates
            THEN LET r == register_nonidentical_duplicates(dup_ref[1], dup_ref[2],
                                                           report_file)
                 IN [same EXCEPT !.exc = r.exc, !.printed = r.printed]
            ELSE same

(***************************************************************************)
(* The methods as steps                                                    *)
(***************************************************************************)
Cleaning == [kind |-> "cleaning", a |-> <<>>, b |-> <<>>]
Raised == [kind |-> "raised", a |-> <<>>, b |-> <<>>]

\* clean_mei up to its call of handle_referenced_duplicates.
CleanMei ==
    /\ pc = "idle"
    /\ IF report_file
       THEN /\ pc' = "error"
            /\ err' = "ValueError"
            /\ out' = Append(out, Cleaning)
            /\ UNCHANGED zones
       ELSE LET r == IF remove_unreferenced_bounding_boxes
                     THEN remove_unreferenced_zones(zones, children, attrib, text)
                     ELSE [surface |-> zones, printed |-> <<>>]
            IN /\ zones' = r.surface
               /\ out' = Append(out, Cleaning) \o r.printed
               /\ pc' = "handle"
               /\ UNCHANGED err
    /\ UNCHANGED <<children, attrib, text, flags, dup_ref_list, idx, runs,
                   dupe_zone_list>>

\* handle_referenced_duplicates, called by clean_mei or on a parsed tree: its
\* first line.
HandleBegin ==
    /\ pc \in {"idle", "handle"}
    /\ IF FindLayer(children) = None /\ find_duplicate_zones(zones) # <<>>
       THEN /\ pc' = "error"
            /\ err' = "AttributeError"
            /\ UNCHANGED <<dup_ref_list, idx>>
       ELSE /\ dup_ref_list' = get_elements_with_duplicate_references(zones, children,
                                                                      attrib)
            /\ idx' = 1
            /\ pc' = "loop"
            /\ UNCHANGED err
    /\ UNCHANGED <<doc, flags, out, runs, dupe_zone_list>>

\* One iteration of its loop.
HandlePair ==
    /\ pc = "loop"
    /\ idx <= Len(dup_ref_list)
    /\ LET r == HandleOne(dup_ref_list[idx], zones, children, attrib, text)
       IN /\ zones' = r.zones
          /\ children' = r.children
          /\ out' = out \o r.printed
          /\ err' = r.exc
          /\ IF r.exc = "none"
             THEN idx' = idx + 1 /\ pc' = "loop"
             ELSE idx' = idx /\ pc' = "error"
    /\ UNCHANGED <<attrib, text, flags, dup_ref_list, runs, dupe_zone_list>>

\* The lines after the loop.
HandleEnd ==
    /\ pc = "loop"
    /\ idx > Len(dup_ref_list)
    /\ out' = IF raise_nonidentical_duplicates /\ report_file
              THEN Append(out, Raised) ELSE out
    /\ pc' = "done"
    /\ UNCHANGED <<doc, flags, err, dup_ref_list, idx, runs, dupe_zone_list>>

\* remove_unreferenced_zones called on a parsed tree.
RemoveUnreferencedZones ==
    /\ pc = "idle"
    /\ runs < MaxRuns
    /\ LET r == remove_unreferenced_zones(zones, children, attrib, text)
       IN /\ zones' = r.surface
          /\ out' = out \o r.printed
    /\ runs' = runs + 1
    /\ UNCHANGED <<children, attrib, text, flags, pc, err, dup_ref_list, idx,
                   dupe_zone_list>>

\* find_duplicate_zones called on a parsed tree.
FindDuplicateZones ==
    /\ pc = "idle"
    /\ dupe_zone_list' = find_duplicate_zones(zones)
    /\ pc' = "returned"
    /\ UNCHANGED <<doc, flags, err, dup_ref_list, idx, out, runs>>

(***************************************************************************)
(* The documents checked                                                   *)
(***************************************************************************)
\* Zone attributes as written in the file.
GeomA == [ulx |-> Some(<<"0">>), uly |-> Some(<<"0">>),
          lrx |-> Some(<<"1", "0">>), lry |-> Some(<<"1", "0">>), rotate |-> Absent]
GeomB == [ulx |-> Some(<<"5">>), uly |-> Some(<<"5">>),
          lrx |-> Some(<<"2", "0">>), lry |-> Some(<<"2", "0">>), rotate |-> Absent]
\* GeomA written otherwise, GeomA rotated, and a box without ulx next to the box
\* that spells the default out.
GeomA0 == [GeomA EXCEPT !.lrx = Some(<<"0", "1", "0">>), !.rotate = Some(<<"0", ".", "0">>)]
GeomAr == [GeomA EXCEPT !.rotate = Some(<<"1", ".", "5">>)]
GeomM == [GeomA EXCEPT !.ulx = Absent]
GeomM1 == [GeomA EXCEPT !.ulx = Some(<<"-", "1">>), !.rotate = Some(<<"-", "0", ".", "0">>)]

Geoms == {GeomA, GeomB}
AllGeoms == {GeomA, GeomB, GeomA0, GeomAr, GeomM, GeomM1}

MakeZone(i, g) == [id |-> ZoneId(i), ulx |-> g.ulx, uly |-> g.uly, lrx |-> g.lrx,
                   lry |-> g.lry, rotate |-> g.rotate]

\* A document of n zones has one element per zone, Elem(i) with facs "#zi", no
\* further attribute and no text, all children of the layer in the zones' order,
\* but for its departures from that:
\*   unref i    zone i has no element
\*   nest i j   Elem(i) is a child of Elem(j)
\*   extra i    a further element, at the end of the layer, refers to zone i
\*   outside i  Elem(i) is in the second layer
\*   noid i     Elem(i) has no xml:id
\*   attr i     Elem(i) carries the attribute tilt="n"
\*   text i     Elem(i) has a text, which happens to spell the first zone's id
Departure(k, i, j) == [kind |-> k, i |-> i, j |-> j]

Structural(n) ==
    {Departure(k, i, 0) : k \in {"unref", "extra", "outside", "noid"}, i \in 1..n}
    \cup {Departure("nest", p[1], p[2]) : p \in {q \in (1..n) \X (1..n) : q[1] # q[2]}}

Content(n) == {Departure(k, i, 0) : k \in {"attr", "text"}, i \in 1..n}

Unrefs(n) == {Departure("unref", i, 0) : i \in 1..n}

AtMostOne(S) == {{}} \cup {{d} : d \in S}

MakeDoc(n, geom, deps) ==
    LET Is(k, i) == \E d \in deps : d.kind = k /\ d.i = i
        Of(k) == {d \in deps : d.kind = k}
        present == {i \in 1..n : ~Is("unref", i)}
                   \cup (IF Of("extra") # {} THEN {n + 1} ELSE {})
        InLayer(i) == /\ i \in present
                      /\ ~Is("nest", i)
                      /\ ~Is("outside", i)
        top == SelectSeq([i \in 1..(n + 1) |-> i], InLayer)
        Under(j) == SelectSeq([i \in 1..n |-> i],
                              LAMBDA i : \E d \in Of("nest") : d.i = i /\ d.j = j)
        Out == SelectSeq([i \in 1..n |-> i], LAMBDA i : Is("outside", i))
        ElemsOf(is) == [k \in 1..Len(is) |-> Elem(is[k])]
        kids(node) ==
            IF node = Body THEN <<Layer, Layer2>>
            ELSE IF node = Layer THEN ElemsOf(top)
            ELSE IF node = Layer2 THEN ElemsOf(Out)
            ELSE ElemsOf(Under(node[2]))
        nodes == {Body, Layer, Layer2} \cup {Elem(i) : i \in present}
        attr(node) ==
            IF node[1] # "elem" THEN NoAttrib
            ELSE LET i == node[2]
                     z == IF i = n + 1 THEN (CHOOSE d \in Of("extra") : TRUE).i ELSE i
                 IN [xmlid |-> IF Is("noid", i) THEN Absent ELSE Some(ElemId(i)),
                     facs |-> Some(Ref(ZoneId(z))),
                     tilt |-> IF Is("attr", i) THEN Some(<<"n">>) ELSE Absent]
        txof(node) == IF node[1] = "elem" /\ Is("text", node[2])
                      THEN Some(ZoneId(1)) ELSE Absent
    IN [zones |-> [i \in 1..n |-> MakeZone(i, geom[i])],
        children |-> [node \in nodes |-> kids(node)],
        attrib |-> [node \in nodes |-> attr(node)],
        text |-> [node \in nodes |-> txof(node)]]

\* The documents with at most one departure in structure and one in content.
Docs ==
    UNION {{MakeDoc(n, geom, sd \cup cd) :
               geom \in [1..n -> Geoms],
               sd \in AtMostOne(Structural(n)), cd \in AtMostOne(Content(n))} :
           n \in 0..MaxZones}

\* The documents in which any of the zones have no element and any of the
\* elements a text.
UnrefDocs ==
    UNION {{MakeDoc(n, geom, deps) :
               geom \in [1..n -> Geoms],
               deps \in SUBSET (Unrefs(n)
                                \cup {Departure("text", i, 0) : i \in 1..n})} :
           n \in 0..MaxZones}

\* Surfaces of zones written in every way, over an empty layer.
ZoneDocs ==
    UNION {{MakeDoc(n, geom, Unrefs(n)) : geom \in [1..n -> AllGeoms]} :
           n \in 0..MaxZones}

InitCommon(d) ==
    /\ zones = d.zones
    /\ children = d.children
    /\ attrib = d.attrib
    /\ text = d.text
    /\ pc = "idle"
    /\ err = "none"
    /\ dup_ref_list = <<>>
    /\ idx = 0
    /\ out = <<>>
    /\ runs = 0
    /\ dupe_zone_list = <<>>

\* clean_mei_files' defaults.
DefaultFlags ==
    /\ remove_unreferenced_bounding_boxes = TRUE
    /\ remove_identical_duplicates = TRUE
    /\ raise_nonidentical_duplicates = TRUE
    /\ report_file = FALSE

\* A cleaner built with any options, and a parsed document.
Init ==
    /\ remove_unreferenced_bounding_boxes \in BOOLEAN
    /\ remove_identical_duplicates \in BOOLEAN
    /\ raise_nonidentical_duplicates \in BOOLEAN
    /\ report_file \in BOOLEAN
    /\ \E d \in Docs : InitCommon(d)

Next == CleanMei \/ HandleBegin \/ HandlePair \/ HandleEnd

Spec == Init /\ [][Next]_vars

\* remove_unreferenced_zones called, and called again, on a parsed document.
InitUnref == DefaultFlags /\ \E d \in UnrefDocs : InitCommon(d)

NextUnref == RemoveUnreferencedZones

SpecUnref == InitUnref /\ [][NextUnref]_vars

\* find_duplicate_zones called on a parsed document.
InitFind == DefaultFlags /\ \E d \in ZoneDocs : InitCommon(d)

NextFind == FindDuplicateZones

SpecFind == InitFind /\ [][NextFind]_vars

(***************************************************************************)
(* Properties                                                              *)
(***************************************************************************)
body_text == tostring(Body, children, attrib, text)

InDocument(node) == InSeq(Iter(Body, children), node)

ZoneDefined(id) == \E i \in 1..Len(zones) : zones[i].id = id

Pairs == 1..Len(dup_ref_list)

\* check_element_identity returned True, or False, for pair k.
Identical(k) ==
    LET r == check_element_identity(dup_ref_list[k][1].element,
                                    dup_ref_list[k][2].element, attrib, text)
    IN r.exc = "none" /\ r.value

NonIdentical(k) ==
    LET r == check_element_identity(dup_ref_list[k][1].element,
                                    dup_ref_list[k][2].element, attrib, text)
    IN r.exc = "none" /\ ~r.value

Printed(kind, a) == \E i \in 1..Len(out) : out[i].kind = kind /\ out[i].a = a

InPass == pc \in {"loop", "done", "error"} /\ idx >= 1

\* C1: once remove_unreferenced_zones has run on a document, the bare identifier
\* of every zone left on the surface is a substring of the serialized body.
C1_RemainingZonesReferenced ==
    runs >= 1 => \A i \in 1..Len(zones) : IsSubstring(zones[i].id, body_text)

\* A run that removed a zone and kept another.
C1_Witness == runs = 1 /\ Len(out) >= 1 /\ Len(zones) >= 1

\* C8: a further run of remove_unreferenced_zones on the tree a run produced
\* removes no zone, prints nothing and leaves the tree as it is.
C8_SecondRunChangesNothing ==
    [][runs >= 1 => /\ zones' = zones
                    /\ children' = children
                    /\ attrib' = attrib
                    /\ text' = text
                    /\ out' = out]_vars

\* The second run, after a first one that removed two zones.
C8_Witness == runs = 2 /\ Len(out) >= 2

SameDescriptor(z1, z2) ==
    /\ \A c \in {"ulx", "uly", "lrx", "lry"} : IntAttr(z1[c], -1) = IntAttr(z2[c], -1)
    /\ FloatAttr(z1.rotate, 0) = FloatAttr(z2.rotate, 0)

\* C7: find_duplicate_zones returns each unordered pair of distinct zones with
\* equal descriptors (coordinates defaulting to -1, rotation to 0.0) exactly
\* once and no other pair, so k zones of one geometry give k*(k-1)/2 pairs.
C7_ExactlyTheEqualPairs ==
    pc = "returned" =>
        LET n == Len(zones)
            Key(i) == Ref(zones[i].id)
            Listed(i, j) == {k \in 1..Len(dupe_zone_list) :
                                dupe_zone_list[k] \in {<<Key(i), Key(j)>>,
                                                       <<Key(j), Key(i)>>}}
        IN /\ \A i, j \in 1..n :
                 i < j => Cardinality(Listed(i, j))
                          = IF SameDescriptor(zones[i], zones[j]) THEN 1 ELSE 0
           /\ \A k \in 1..Len(dupe_zone_list) :
                 \E i, j \in 1..n : i # j /\ k \in Listed(i, j)
           /\ Len(dupe_zone_list)
              = Cardinality({p \in (1..n) \X (1..n) :
                                p[1] < p[2] /\ SameDescriptor(zones[p[1]], zones[p[2]])})

\* Three zones of one geometry, one of them equal to the others only through the
\* defaults, gave three pairs.
C7_Witness ==
    /\ pc = "returned"
    /\ Len(dupe_zone_list) = 3
    /\ \E i, j \in 1..Len(zones) :
          /\ zones[i].ulx = Absent
          /\ zones[j].ulx # Absent
          /\ <<Ref(zones[i].id), Ref(zones[j].id)>> \in
                {dupe_zone_list[k] : k \in 1..Len(dupe_zone_list)}

\* The elements below root whose facs is value.
Referencing(root, value) ==
    {e \in DOMAIN attrib : /\ e # root
                           /\ InSeq(Iter(root, children), e)
                           /\ attrib[e].facs = Some(value)}

Position(node) ==
    LET it == Iter(Body, children)
    IN CHOOSE i \in 1..Len(it) : it[i] = node

Sides == {1, 2}

Triples ==
    {t \in Pairs \X Pairs \X Pairs :
        /\ t[1] < t[2] /\ t[2] < t[3]
        /\ dup_ref_list[t[1]][1].bb_id = dup_ref_list[t[2]][1].bb_id
        /\ dup_ref_list[t[1]][2].bb_id = dup_ref_list[t[3]][1].bb_id
        /\ dup_ref_list[t[2]][2].bb_id = dup_ref_list[t[3]][2].bb_id
        /\ Identical(t[1]) /\ Identical(t[2]) /\ Identical(t[3])}

\* C9: with remove_identical_duplicates set and three zones of one geometry whose
\* elements are pairwise identical, the pass never ends normally: it gets no
\* further than the pair of the second and third zone, whose deletion was already
\* made for an earlier pair and fails with ValueError, and the zones and elements
\* removed before stay removed.
C9_RepeatedDeletionFails ==
    (InPass /\ remove_identical_duplicates) =>
        \A t \in Triples :
            /\ pc # "done"
            /\ idx <= t[3]
            /\ (pc = "error" /\ idx = t[3]) =>
                  LET b == dup_ref_list[t[3]][1]
                      c == dup_ref_list[t[3]][2]
                  IN /\ err = "ValueError"
                     /\ ~ZoneDefined(StripHash(b.bb_id))
                     /\ ~ZoneDefined(StripHash(c.bb_id))
                     /\ Printed("removed", b.bb_id)
                     /\ Printed("removed", c.bb_id)
                     /\ ~InSeq(children[c.parent], c.element)
                     /\ ~InDocument(c.element)

\* The pass stopped at the pair of the second and third zone.
C9_Witness ==
    /\ pc = "error"
    /\ err = "ValueError"
    /\ remove_identical_duplicates
    /\ \E t \in Triples : idx = t[3]

\* C2: after clean_mei with remove_unreferenced and remove_identical_duplicates
\* set has run to its end, the bare identifier of every zone left on the surface
\* occurs in the serialized body.
C2_SurvivingZonesReferenced ==
    (/\ pc = "done"
     /\ out # <<>>
     /\ out[1] = Cleaning
     /\ remove_unreferenced_bounding_boxes
     /\ remove_identical_duplicates) =>
        \A i \in 1..Len(zones) : IsSubstring(zones[i].id, body_text)

\* C4: with raise_nonidentical_duplicates set, the pass does not fail on a pair of
\* non-identical elements, and once it has ended every such pair has its conflict
\* record and both its elements and both its zones are still in the document.
C4_ConflictsRecordedAndKept ==
    (InPass /\ raise_nonidentical_duplicates) =>
        /\ pc = "error" => ~(idx \in Pairs /\ NonIdentical(idx))
        /\ pc = "done" =>
              \A k \in Pairs :
                  NonIdentical(k) =>
                      /\ \E i \in 1..Len(out) :
                            /\ out[i].kind = "conflict"
                            /\ out[i].a = dup_ref_list[k][1].bb_id
                            /\ out[i].b = dup_ref_list[k][2].bb_id
                      /\ \A s \in Sides :
                            /\ InDocument(dup_ref_list[k][s].element)
                            /\ ZoneDefined(StripHash(dup_ref_list[k][s].bb_id))

\* C6: the pass does not fail on a pair for which the lookup found no element for
\* one of the zones.
C6_MissingElementTolerated ==
    ~(/\ pc = "error"
      /\ idx \in Pairs
      /\ \E s \in Sides : dup_ref_list[idx][s].element = None)

AllReferencesDefined ==
    \A e \in DOMAIN attrib :
        (InDocument(e) /\ attrib[e].facs # Absent) =>
            \E i \in 1..Len(zones) : Ref(zones[i].id) = attrib[e].facs[1]

\* C10: every facs attribute of the body points to a defined zone before the pass
\* and, once the pass has ended, every facs attribute still in the body does.
C10_ReferencesStayDefined ==
    /\ pc \in {"idle", "handle"} => AllReferencesDefined
    /\ pc = "done" => AllReferencesDefined

====
